---- MODULE Spec2Model ----
(***************************************************************************)
(* AlignerDataset (TrainingInterfaces/Text_to_Spectrogram/AutoAligner/     *)
(* AlignerDataset.py): the constructor that builds or reuses the feature   *)
(* cache aligner_train_cache.pt, and the worker processes it spawns.       *)
(*                                                                         *)
(* Python indices are 0-based, TLA+ sequences 1-based: element [j] of the  *)
(* source is element [j + 1] here.                                         *)
(***************************************************************************)
EXTENDS Integers, Sequences, FiniteSets, TLC

(* ------------------------------------------------------------------ *)
(* Bounds of the model                                                 *)
(* ------------------------------------------------------------------ *)
MaxPaths == 3
MaxProcs == 2
MaxSlicePaths == 2

(* ------------------------------------------------------------------ *)
(* Program constants                                                   *)
(* ------------------------------------------------------------------ *)
min_len_in_seconds == 1
max_len_in_seconds == 20
output_sr == 16000
hop_length == 256
FeatureWidth == 66

VARIABLES
    cache_file,               \* cache_dir/aligner_train_cache.pt
    files_used,               \* cache_dir/files_used.txt
    audio,                    \* the audio file behind every path
    path_to_transcript_dict,
    rebuild_cache,
    loading_processes,
    key_list,
    key_splits,
    process_list,
    shared_datapoints,        \* resource_manager.list()
    datapoints,               \* self.datapoints of the constructing process
    norm_waves,
    speaker_embeddings,
    pc,                       \* position of the constructing process
    join_index,               \* number of processes already joined
    error,                    \* exception that left the constructor
    manifest_writes,          \* torch.save calls on the cache file, this call
    results                   \* the __getitem__ calls made on the object: <<index, outcome>>

vars == <<cache_file, files_used, audio, path_to_transcript_dict, rebuild_cache,
          loading_processes, key_list, key_splits, process_list,
          shared_datapoints, datapoints, norm_waves, speaker_embeddings, pc,
          join_index, error, manifest_writes, results>>

(* ------------------------------------------------------------------ *)
(* Values                                                              *)
(* ------------------------------------------------------------------ *)
Shuffles(n) == {f \in [1..n -> 1..n] : \A a, b \in 1..n : f[a] = f[b] => a = b}

\* A waveform: the file it comes from, its leading zero-valued samples, the
\* samples from the first to the last non-zero one, its trailing zeros.
Wave(src, lead, body, trail) == [src |-> src, lead |-> lead, body |-> body, trail |-> trail]
WaveLen(w) == w.lead + w.body + w.trail

\* numpy.trim_zeros: strips leading and trailing zero-valued samples
trim_zeros(w) == [w EXCEPT !.lead = 0, !.trail = 0]

\* torch.Tensor(ndarray) / torch.LongTensor(ndarray): same shape, same values
Tensor(x) == [tensor |-> x]

\* Tensor.squeeze(0): drops the first axis when its size is 1
squeeze0(shape) == IF Len(shape) >= 1 /\ shape[1] = 1 THEN Tail(shape) ELSE shape

\* AudioPreprocessor.audio_to_mel_spec_tensor(...).transpose(0, 1): one frame
\* per hop of the waveform, time-major
audio_to_mel_spec_tensor(w) == [of |-> w, frames |-> (WaveLen(w) \div hop_length) + 1]

\* EncoderClassifier.encode_batch(wavs=wave.unsqueeze(0)).squeeze()
encode_batch(w) == [embedding_of |-> w]

(* ------------------------------------------------------------------ *)
(* Inputs: transcripts and audio files                                 *)
(* ------------------------------------------------------------------ *)
\* A transcript: whether it is blank after strip(), what string_to_tensor
\* does on it with handle_missing=False (raises KeyError, or returns a tensor
\* of that shape) and the shape it returns with handle_missing=True.
Transcript(blank, raises, shape) ==
    [blank |-> blank, raises |-> raises, shape |-> shape]

\* An audio file: whether sf.read can load it, its length in samples and its
\* sampling rate, and what audio_to_wave_tensor(normalize=True) makes of it
\* (raises ValueError, or a 16 kHz waveform with lead/body/trail samples).
Audio(readable, frames, sr, norm_ok, lead, body, trail) ==
    [readable |-> readable, frames |-> frames, sr |-> sr, norm_ok |-> norm_ok,
     lead |-> lead, body |-> body, trail |-> trail]

KnownText == Transcript(FALSE, FALSE, <<2, FeatureWidth>>)
GoodAudio == Audio(TRUE, 48000, 16000, TRUE, 0, 48000, 0)

Good        == [t |-> KnownText, a |-> GoodAudio]
Blank       == [t |-> Transcript(TRUE, FALSE, <<2, FeatureWidth>>), a |-> GoodAudio]
Unreadable  == [t |-> KnownText, a |-> Audio(FALSE, 0, 16000, TRUE, 0, 0, 0)]
RawShort    == [t |-> KnownText, a |-> Audio(TRUE, 4800, 16000, TRUE, 0, 4800, 0)]
RawLong     == [t |-> KnownText, a |-> Audio(TRUE, 1008000, 48000, TRUE, 0, 336000, 0)]
NormFails   == [t |-> KnownText, a |-> Audio(TRUE, 48000, 16000, FALSE, 0, 0, 0)]
NormShort   == [t |-> KnownText, a |-> Audio(TRUE, 24000, 16000, TRUE, 0, 8000, 0)]
ZeroPadded  == [t |-> KnownText, a |-> Audio(TRUE, 48000, 48000, TRUE, 4000, 8000, 4000)]
Unknown     == [t |-> Transcript(FALSE, TRUE, <<2, FeatureWidth>>), a |-> GoodAudio]
BadWidth    == [t |-> Transcript(FALSE, FALSE, <<2, 62>>), a |-> GoodAudio]
OneToken    == [t |-> Transcript(FALSE, FALSE, <<1, FeatureWidth>>), a |-> GoodAudio]
Batched     == [t |-> Transcript(FALSE, FALSE, <<1, 3, FeatureWidth>>), a |-> GoodAudio]
EmptyText   == [t |-> Transcript(FALSE, FALSE, <<0>>), a |-> GoodAudio]

\* every branch of the worker's loop body
SampleKinds == {Good, Blank, Unreadable, RawShort, RawLong, NormFails, NormShort,
                ZeroPadded, Unknown, BadWidth, OneToken, Batched, EmptyText}

\* the outcomes a worker can have on a sample: a record, a skip, a crash
BuildKinds == {Good, RawShort, Unreadable, BadWidth}

(* ------------------------------------------------------------------ *)
(* cache_builder_process: one iteration of its loop                    *)
(* ------------------------------------------------------------------ *)
\* the lower bound left out of the duration check
DurationBelowMax(len, sr) == len <= max_len_in_seconds * sr

\* lines 153-154 and 164-165: min_len <= len(wave) / sr <= max_len
DurationInRange(len, sr) ==
    min_len_in_seconds * sr <= len /\ len <= max_len_in_seconds * sr

\* tf.string_to_tensor(transcript, handle_missing).squeeze(0).cpu().numpy()
string_to_tensor(path, handle_missing) ==
    LET t == path_to_transcript_dict[path]
    IN  [raised |-> t.raises /\ ~handle_missing,
         array |-> [src |-> path, handle_missing |-> handle_missing,
                    shape |-> squeeze0(t.shape)]]

\* len(cached_text[0]): indexing an array with no first element raises
\* IndexError, len() of the scalar taken from a 1-d array raises TypeError
FirstRowLen(shape) ==
    IF Len(shape) = 0 \/ shape[1] = 0 THEN [exc |-> "IndexError", len |-> 0]
    ELSE IF Len(shape) = 1 THEN [exc |-> "TypeError", len |-> 0]
    ELSE [exc |-> "", len |-> shape[2]]

Skip(why)    == [kind |-> "skip", why |-> why, datapoint |-> <<>>]
Raise(exc)   == [kind |-> "crash", why |-> exc, datapoint |-> <<>>]
Accept(dp)   == [kind |-> "append", why |-> "", datapoint |-> dp]

\* lines 184-191: the record appended to process_internal_dataset_chunk
Datapoint(cached_text, norm_wave) ==
    LET cached_speech == audio_to_mel_spec_tensor(norm_wave)
    IN  <<cached_text, <<cached_text.shape[1]>>, cached_speech,
          <<cached_speech.frames>>, norm_wave>>

\* the worker without its width check: whatever converts is accepted
WidthUnchecked(cached_text, norm_wave) ==
    IF FirstRowLen(cached_text.shape).exc \notin {"", "TypeError"}
    THEN Raise(FirstRowLen(cached_text.shape).exc)
    ELSE Accept(Datapoint(cached_text, norm_wave))

\* lines 177-183: the width check on the first feature vector
WidthCheck(cached_text, norm_wave) ==
    LET first == FirstRowLen(cached_text.shape)
    IN  IF first.exc = "TypeError" THEN Skip("TypeError")
        ELSE IF first.exc # "" THEN Raise(first.exc)
        ELSE IF first.len # FeatureWidth THEN Skip("width")
        ELSE Accept(Datapoint(cached_text, norm_wave))

\* the result of the lenient conversion kept instead of dropped
KeepLenient(path, norm_wave) ==
    WidthCheck(string_to_tensor(path, TRUE).array, norm_wave)

\* lines 174-176: the lenient conversion is run, its result dropped
OnKeyError(path, norm_wave) ==
    LET lenient == string_to_tensor(path, TRUE)
    IN  Skip("KeyError")

\* lines 171-183
ConvertText(path, norm_wave) ==
    LET converted == string_to_tensor(path, FALSE)
    IN  IF converted.raised THEN OnKeyError(path, norm_wave)
        ELSE WidthCheck(converted.array, norm_wave)

\* lines 158-169
Normalize(path) ==
    LET a == audio[path]
        norm_wave == Wave(path, a.lead, a.body, a.trail)
    IN  IF ~a.norm_ok THEN Skip("ValueError")
        ELSE IF ~DurationInRange(WaveLen(norm_wave), output_sr) THEN Skip("duration")
        ELSE ConvertText(path, trim_zeros(norm_wave))

\* lines 149-192, for one path of the slice
Iteration(path) ==
    LET a == audio[path]
    IN  IF path_to_transcript_dict[path].blank THEN Skip("blank")
        ELSE IF ~a.readable THEN Raise("RuntimeError")
        ELSE IF ~DurationInRange(a.frames, a.sr) THEN Skip("duration")
        ELSE Normalize(path)

(* ------------------------------------------------------------------ *)
(* The state after the caller has chosen the arguments                 *)
(* ------------------------------------------------------------------ *)
NoFile == [exists |-> FALSE, content |-> <<>>]

\* A cache file left by an earlier version: (datapoints, waves), no embeddings
LegacyWave == Wave(0, 0, 48000, 0)
LegacyCache ==
    [exists |-> TRUE,
     content |-> << <<  <<Tensor([src |-> 0, handle_missing |-> FALSE,
                                  shape |-> <<2, FeatureWidth>>]),
                          Tensor(<<2>>),
                          Tensor(audio_to_mel_spec_tensor(LegacyWave)),
                          Tensor(<<audio_to_mel_spec_tensor(LegacyWave).frames>>)>>  >>,
                  <<Tensor(LegacyWave)>> >>]

NewCall ==
    /\ files_used = <<>>
    /\ key_list = <<>>
    /\ key_splits = <<>>
    /\ process_list = <<>>
    /\ shared_datapoints = <<>>
    /\ datapoints = <<>>
    /\ norm_waves = <<>>
    /\ speaker_embeddings = <<>>
    /\ pc = "start"
    /\ join_index = 0
    /\ error = ""
    /\ manifest_writes = 0
    /\ results = {}

InitWith(kinds, maxPaths, procCounts) ==
    /\ \E n \in 0..maxPaths : \E samples \in [1..n -> kinds] :
          /\ path_to_transcript_dict = [p \in 1..n |-> samples[p].t]
          /\ audio = [p \in 1..n |-> samples[p].a]
    /\ loading_processes \in procCounts
    /\ \E start \in {<<NoFile, FALSE>>, <<LegacyCache, TRUE>>, <<LegacyCache, FALSE>>} :
          /\ cache_file = start[1]
          /\ rebuild_cache = start[2]
    /\ NewCall

Init == InitWith(BuildKinds, MaxPaths, 1..MaxProcs)

\* one worker, every kind of sample
InitExtractor == InitWith(SampleKinds, MaxSlicePaths, {1})

(* ------------------------------------------------------------------ *)
(* AlignerDataset.__init__, building the cache                         *)
(* ------------------------------------------------------------------ *)
\* line 33
CacheMiss == ~cache_file.exists \/ rebuild_cache

\* the slice bounds with the division taken first
KeySplitDivFirst(list, i, n) ==
    SubSeq(list, i * (Len(list) \div n) + 1, (i + 1) * (Len(list) \div n))

\* line 60: key_list[i * len(key_list) // n : (i + 1) * len(key_list) // n]
KeySplit(list, i, n) ==
    SubSeq(list, (i * Len(list)) \div n + 1, ((i + 1) * Len(list)) \div n)

\* the cache saved before the filter and the embeddings
SaveEarly == <<"convert", "save", "filter", "enrich", "finish">>

\* the order of the steps that follow the join, lines 75-133
MainOrder == <<"convert", "filter", "enrich", "save", "finish">>

StepAfter(step) ==
    LET j == CHOOSE j \in 1..Len(MainOrder) : MainOrder[j] = step
    IN  IF j < Len(MainOrder) THEN MainOrder[j + 1] ELSE "done"

\* lines 34-60
Prepare ==
    /\ pc = "start"
    /\ CacheMiss
    /\ LET keys == [j \in 1..Len(path_to_transcript_dict) |-> j]
       IN  /\ files_used' = keys
           /\ \E f \in Shuffles(Len(keys)) :
                 key_list' = [j \in 1..Len(keys) |-> keys[f[j]]]
    /\ shared_datapoints' = <<>>
    /\ key_splits' = [j \in 1..loading_processes |->
                         KeySplit(key_list', j - 1, loading_processes)]
    /\ process_list' = <<>>
    /\ pc' = "processes"
    /\ UNCHANGED <<cache_file, audio, path_to_transcript_dict, rebuild_cache,
                   loading_processes, datapoints, norm_waves, speaker_embeddings,
                   join_index, error, manifest_writes>>
    /\ UNCHANGED results

\* lines 61-72: Process(target=self.cache_builder_process, ...).start()
Spawn ==
    /\ pc = "processes"
    /\ Len(process_list) < Len(key_splits)
    /\ process_list' = Append(process_list,
                              [state |-> "running",
                               path_list |-> key_splits[Len(process_list) + 1],
                               pos |-> 0, visited |-> <<>>, chunk |-> <<>>,
                               exc |-> ""])
    /\ UNCHANGED <<cache_file, files_used, audio, path_to_transcript_dict,
                   rebuild_cache, loading_processes, key_list, key_splits,
                   shared_datapoints, datapoints, norm_waves, speaker_embeddings,
                   pc, join_index, error, manifest_writes>>
    /\ UNCHANGED results

\* a join that does not wait
JoinNoWait(process) == TRUE

\* process.join() returns once the process has terminated
JoinReturns(process) == process.state # "running"

\* lines 73-74
Join ==
    /\ pc = "processes"
    /\ Len(process_list) = Len(key_splits)
    /\ join_index < Len(process_list)
    /\ JoinReturns(process_list[join_index + 1])
    /\ join_index' = join_index + 1
    /\ pc' = IF join_index' = Len(process_list) THEN MainOrder[1] ELSE pc
    /\ UNCHANGED <<cache_file, files_used, audio, path_to_transcript_dict,
                   rebuild_cache, loading_processes, key_list, key_splits,
                   process_list, shared_datapoints, datapoints, norm_waves,
                   speaker_embeddings, error, manifest_writes>>
    /\ UNCHANGED results

\* lines 75-89: list(self.datapoints), the tensors and the waves
Convert ==
    /\ pc = "convert"
    /\ datapoints' = [j \in 1..Len(shared_datapoints) |->
                         <<Tensor(shared_datapoints[j][1]),
                           Tensor(shared_datapoints[j][2]),
                           Tensor(shared_datapoints[j][3]),
                           Tensor(shared_datapoints[j][4])>>]
    /\ norm_waves' = [j \in 1..Len(shared_datapoints) |->
                         Tensor(shared_datapoints[j][5])]
    /\ pc' = StepAfter("convert")
    /\ UNCHANGED <<cache_file, files_used, audio, path_to_transcript_dict,
                   rebuild_cache, loading_processes, key_list, key_splits,
                   process_list, shared_datapoints, speaker_embeddings,
                   join_index, error, manifest_writes>>
    /\ UNCHANGED results

\* lines 92-97: the indexes of the datapoints to delete
PopIndexes(dps) ==
    {j \in 1..Len(dps) :
        LET first == FirstRowLen(dps[j][1].tensor.shape)
        IN  first.exc = "TypeError" \/ (first.exc = "" /\ first.len # FeatureWidth)}

\* lines 98-100: self.datapoints.pop(pop_index) for every index, highest first
RECURSIVE PopAll(_, _, _)
PopAll(dps, indexes, j) ==
    IF j > Len(dps) THEN <<>>
    ELSE IF j \in indexes THEN PopAll(dps, indexes, j + 1)
    ELSE <<dps[j]>> \o PopAll(dps, indexes, j + 1)

\* lines 91-100; len(el[0][0]) of a datapoint without a first vector raises
\* IndexError, which the except TypeError clause lets through
Filter ==
    /\ pc = "filter"
    /\ IF \E j \in 1..Len(datapoints) :
             FirstRowLen(datapoints[j][1].tensor.shape).exc = "IndexError"
       THEN /\ pc' = "raised"
            /\ error' = "IndexError"
            /\ UNCHANGED datapoints
       ELSE /\ datapoints' = PopAll(datapoints, PopIndexes(datapoints), 1)
            /\ pc' = StepAfter("filter")
            /\ UNCHANGED error
    /\ UNCHANGED <<cache_file, files_used, audio, path_to_transcript_dict,
                   rebuild_cache, loading_processes, key_list, key_splits,
                   process_list, shared_datapoints, norm_waves,
                   speaker_embeddings, join_index, manifest_writes>>
    /\ UNCHANGED results

\* lines 107-109: one embedding per wave of norm_waves, in its order
Embeddings(waves) == [j \in 1..Len(waves) |-> encode_batch(waves[j])]

\* lines 103-109
Enrich ==
    /\ pc = "enrich"
    /\ \/ /\ speaker_embeddings' = Embeddings(norm_waves)
          /\ pc' = StepAfter("enrich")
          /\ UNCHANGED error
       \/ \* EncoderClassifier.from_hparams fails to fetch or load the model
          /\ pc' = "raised"
          /\ error' = "from_hparams"
          /\ UNCHANGED speaker_embeddings
    /\ UNCHANGED <<cache_file, files_used, audio, path_to_transcript_dict,
                   rebuild_cache, loading_processes, key_list, key_splits,
                   process_list, shared_datapoints, datapoints, norm_waves,
                   join_index, manifest_writes>>
    /\ UNCHANGED results

\* one location per record, by zero-based ordinal
ListOfLocations(dps, waves, embeddings) ==
    [j \in 1..Len(dps) |-> [location |-> j - 1]]

\* line 112: the object given to torch.save,
\* (self.datapoints, norm_waves, self.speaker_embeddings)
CacheContent(dps, waves, embeddings) == <<dps, waves, embeddings>>

\* line 112: torch.save(..., os.path.join(cache_dir, "aligner_train_cache.pt"))
Save ==
    /\ pc = "save"
    /\ cache_file' = [exists |-> TRUE,
                      content |-> CacheContent(datapoints, norm_waves,
                                               speaker_embeddings)]
    /\ manifest_writes' = manifest_writes + 1
    /\ pc' = StepAfter("save")
    /\ UNCHANGED <<files_used, audio, path_to_transcript_dict, rebuild_cache,
                   loading_processes, key_list, key_splits, process_list,
                   shared_datapoints, datapoints, norm_waves, speaker_embeddings,
                   join_index, error>>
    /\ UNCHANGED results

\* lines 49-51, 112: the files of cache_dir the call has written so far
WrittenFiles ==
    (IF pc # "start" /\ key_splits # <<>> THEN {"files_used.txt"} ELSE {})
    \cup (IF manifest_writes > 0 THEN {"aligner_train_cache.pt"} ELSE {})

\* lines 132-133: the class never sets spec_datapoints, so
\* len(self.spec_datapoints) raises AttributeError
Finish ==
    /\ pc = "finish"
    /\ pc' = "raised"
    /\ error' = "AttributeError"
    /\ UNCHANGED <<cache_file, files_used, audio, path_to_transcript_dict,
                   rebuild_cache, loading_processes, key_list, key_splits,
                   process_list, shared_datapoints, datapoints, norm_waves,
                   speaker_embeddings, join_index, manifest_writes>>
    /\ UNCHANGED results

(* ------------------------------------------------------------------ *)
(* AlignerDataset.__init__, reusing the cache                          *)
(* ------------------------------------------------------------------ *)
\* tuple == int: a tuple never equals an integer
TupleEqInt(tuple, n) == FALSE

\* len(x) of the bool that a comparison returns raises TypeError
LenOf(x) ==
    IF x \in BOOLEAN THEN [exc |-> "TypeError", len |-> 0]
    ELSE [exc |-> "", len |-> Len(x)]

\* the test as "len(self.datapoints) == 2": true of a cache without
\* speaker embeddings
LenEqualsTwo(loaded) ==
    [exc |-> "", len |-> IF Len(loaded) = 2 THEN 1 ELSE 0]

\* line 116: len(self.datapoints == 2)
LenOfComparison(loaded) == LenOf(TupleEqInt(loaded, 2))

\* lines 115-130
Load ==
    /\ pc = "start"
    /\ ~CacheMiss
    /\ LET loaded == cache_file.content
           test == LenOfComparison(loaded)
       IN  IF test.exc # ""
           THEN /\ datapoints' = loaded
                /\ pc' = "raised"
                /\ error' = test.exc
                /\ UNCHANGED <<speaker_embeddings, cache_file, manifest_writes>>
           ELSE IF test.len # 0
           THEN /\ datapoints' = loaded[1]
                /\ speaker_embeddings' = Embeddings(loaded[2])
                /\ cache_file' = [exists |-> TRUE,
                                  content |-> <<loaded[1], loaded[2],
                                                Embeddings(loaded[2])>>]
                /\ manifest_writes' = manifest_writes + 1
                /\ pc' = "finish"
                /\ UNCHANGED error
           ELSE /\ datapoints' = loaded[1]
                /\ speaker_embeddings' = loaded[3]
                /\ pc' = "finish"
                /\ UNCHANGED <<error, cache_file, manifest_writes>>
    /\ UNCHANGED <<files_used, audio, path_to_transcript_dict, rebuild_cache,
                   loading_processes, key_list, key_splits, process_list,
                   shared_datapoints, norm_waves, join_index>>
    /\ UNCHANGED results

\* the caller runs the same script again, without rebuild_cache
Reconstruct ==
    /\ pc = "raised"
    /\ rebuild_cache' = FALSE
    /\ files_used' = <<>>
    /\ key_list' = <<>>
    /\ key_splits' = <<>>
    /\ process_list' = <<>>
    /\ shared_datapoints' = <<>>
    /\ datapoints' = <<>>
    /\ norm_waves' = <<>>
    /\ speaker_embeddings' = <<>>
    /\ pc' = "start"
    /\ join_index' = 0
    /\ error' = ""
    /\ manifest_writes' = 0
    /\ results' = {}
    /\ UNCHANGED <<cache_file, audio, path_to_transcript_dict, loading_processes>>

(* ------------------------------------------------------------------ *)
(* cache_builder_process, run by every spawned process                 *)
(* ------------------------------------------------------------------ *)
\* the process that stays where the exception arose and never terminates
Hung(process, exc) == process

\* an exception no statement catches ends the process
Crashed(process, exc) == [process EXCEPT !.state = "crashed", !.exc = exc]

WorkerUnchanged ==
    UNCHANGED <<cache_file, files_used, audio, path_to_transcript_dict,
                rebuild_cache, loading_processes, key_list, key_splits,
                datapoints, norm_waves, speaker_embeddings, pc, join_index,
                error, manifest_writes, results>>

\* lines 143-146: sf.read(path_list[0]) before the loop
Begin(k) ==
    LET process == process_list[k]
    IN  /\ process.state = "running"
        /\ process.pos = 0
        /\ process_list' = [process_list EXCEPT ![k] =
              IF process.path_list = <<>> THEN Crashed(process, "IndexError")
              ELSE IF ~audio[process.path_list[1]].readable
                   THEN Crashed(process, "RuntimeError")
              ELSE [process EXCEPT !.pos = 1]]
        /\ UNCHANGED shared_datapoints
        /\ WorkerUnchanged

\* the record given to the shared list as soon as it is made
AppendedAtOnce(shared, outcome) ==
    IF outcome.kind = "append" THEN Append(shared, outcome.datapoint) ELSE shared

\* lines 184-191: the loop appends to process_internal_dataset_chunk, a
\* list of the process; self.datapoints is not touched before line 192
InLoop(shared, outcome) == shared

\* lines 148-191: the loop body on the next path of the slice; visited
\* lists the paths whose iteration has ended
Step(k) ==
    LET process == process_list[k]
    IN  /\ process.state = "running"
        /\ process.pos \in 1..Len(process.path_list)
        /\ LET path == process.path_list[process.pos]
               outcome == Iteration(path)
               done == [process EXCEPT !.visited = Append(process.visited, path)]
           IN  /\ shared_datapoints' = InLoop(shared_datapoints, outcome)
               /\ process_list' = [process_list EXCEPT ![k] =
                     IF outcome.kind = "crash" THEN Crashed(process, outcome.why)
                     ELSE IF outcome.kind = "skip"
                          THEN [done EXCEPT !.pos = process.pos + 1]
                     ELSE [done EXCEPT !.pos = process.pos + 1,
                                          !.chunk = Append(process.chunk, outcome.datapoint)]]
        /\ WorkerUnchanged

\* the list read, extended in the process and written back: what the
\* other processes appended in between is lost
WrittenBack(shared, chunk) == chunk

\* line 192: ListProxy.__iadd__ is one extend call, run by the manager
\* process in one piece
extend(shared, chunk) == shared \o chunk

\* line 192: self.datapoints += process_internal_dataset_chunk
Extend(k) ==
    LET process == process_list[k]
    IN  /\ process.state = "running"
        /\ process.pos = Len(process.path_list) + 1
        /\ shared_datapoints' = extend(shared_datapoints, process.chunk)
        /\ process_list' = [process_list EXCEPT ![k].state = "exited"]
        /\ WorkerUnchanged

(* ------------------------------------------------------------------ *)
(* __getitem__ and __len__                                             *)
(* ------------------------------------------------------------------ *)
\* self.spec_datapoints: no statement of the class assigns it
spec_datapoints == [assigned |-> FALSE, value |-> <<>>]

\* lines 196-202: the id of the phone whose vector equals the vector, for
\* every vector of text_vector (the table is the frontend's; every vector is
\* taken to equal the vector of one phone)
Tokens(text_vector) ==
    [j \in 1..text_vector.tensor.shape[1] |->
        [phone_to_id |-> <<text_vector.tensor.src, j>>]]

\* lines 194-207
getitem(index) ==
    IF ~spec_datapoints.assigned
    THEN [exc |-> "AttributeError", value |-> <<>>]
    ELSE LET el == spec_datapoints.value[index + 1]
         IN  [exc |-> "",
              value |-> <<Tensor(Tokens(el[1])), el[2], el[3], el[4],
                          speaker_embeddings[index + 1]>>]

\* lines 209-210
len_dataset == Len(datapoints)

\* a call dataset[index], 0 <= index < len(dataset), on the object whose
\* __init__ has ended; __getitem__ assigns nothing to self
GetItem ==
    /\ pc = "raised"
    /\ \E index \in 0..(len_dataset - 1) :
          results' = results \cup {<<index, getitem(index)>>}
    /\ UNCHANGED <<cache_file, files_used, audio, path_to_transcript_dict,
                   rebuild_cache, loading_processes, key_list, key_splits,
                   process_list, shared_datapoints, datapoints, norm_waves,
                   speaker_embeddings, pc, join_index, error, manifest_writes>>

Next ==
    \/ Prepare
    \/ Spawn
    \/ Join
    \/ Convert
    \/ Filter
    \/ Enrich
    \/ Save
    \/ Finish
    \/ Load
    \/ Reconstruct
    \/ GetItem
    \/ \E k \in 1..Len(process_list) : Begin(k)
    \/ \E k \in 1..Len(process_list) : Step(k)
    \/ \E k \in 1..Len(process_list) : Extend(k)

Spec == Init /\ [][Next]_vars

SpecExtractor == InitExtractor /\ [][Next]_vars

\* the steps of the main process up to the enrichment, and those of the
\* k-th spawned process
MainStep == Prepare \/ Spawn \/ Join \/ Convert \/ Filter

WorkerStep(k) ==
    /\ k \in 1..Len(process_list)
    /\ (Begin(k) \/ Step(k) \/ Extend(k))

\* a sample the worker accepts, one it skips, one it crashes on
FairKinds == {Good, RawShort, Unreadable}

InitFair == InitWith(FairKinds, MaxSlicePaths, 1..MaxProcs)

\* every process that can take a step is scheduled in the end
SpecFair ==
    /\ InitFair
    /\ [][Next]_vars
    /\ WF_vars(MainStep)
    /\ \A k \in 1..MaxProcs : WF_vars(WorkerStep(k))

(* ------------------------------------------------------------------ *)
(* Vocabulary of the properties                                        *)
(* ------------------------------------------------------------------ *)
Paths == DOMAIN path_to_transcript_dict

Range(s) == {s[j] : j \in 1..Len(s)}

RECURSIVE Concat(_)
Concat(seqs) == IF seqs = <<>> THEN <<>> ELSE Head(seqs) \o Concat(Tail(seqs))

Terminated(k) == process_list[k].state # "running"

AllTerminated ==
    /\ Len(process_list) = loading_processes
    /\ \A k \in 1..Len(process_list) : Terminated(k)

\* the call took the build branch and is past the join
PastJoin ==
    \/ pc \in Range(MainOrder)
    \/ pc = "raised" /\ error # "TypeError"

\* the call took the else branch of line 33: it is under way and has made
\* no key splits (a build makes loading_processes >= 1 of them)
CacheHitCall == pc # "start" /\ key_splits = <<>>

\* self.datapoints as a list of tensored records (after a failed load it is
\* the loaded tuple)
Records == IF error = "TypeError" THEN <<>> ELSE datapoints

\* the files a record of any collection was made from
ChunkSources ==
    UNION {{process_list[k].chunk[j][5].src : j \in 1..Len(process_list[k].chunk)} :
              k \in 1..Len(process_list)}
SharedSources == {shared_datapoints[j][5].src : j \in 1..Len(shared_datapoints)}
RecordSources == {Records[j][3].tensor.of.src : j \in 1..Len(Records)}
WaveSources == {norm_waves[j].tensor.src : j \in 1..Len(norm_waves)}
CacheSources ==
    IF cache_file.exists
    THEN {cache_file.content[1][j][3].tensor.of.src :
              j \in 1..Len(cache_file.content[1])}
         \cup {cache_file.content[2][j].tensor.src :
              j \in 1..Len(cache_file.content[2])}
    ELSE {}
AllSources ==
    ChunkSources \cup SharedSources \cup RecordSources \cup WaveSources
    \cup CacheSources

(* ------------------------------------------------------------------ *)
(* C1                                                                  *)
(* ------------------------------------------------------------------ *)
\* C1: once the builder has partitioned the shuffled key list, there are
\* exactly loading_processes slices, they are consecutive pieces of key_list
\* (their concatenation is key_list, which holds every key exactly once, so
\* they are pairwise disjoint, cover every key and their sizes sum to the
\* number of keys), and any two sizes differ by at most 1.
C1_Partition ==
    (pc = "processes" \/ PastJoin) =>
        /\ Len(key_splits) = loading_processes
        /\ Concat(key_splits) = key_list
        /\ Len(key_list) = Cardinality(Paths)
        /\ Range(key_list) = Paths
        /\ \A a, b \in 1..Len(key_splits) :
              Len(key_splits[a]) - Len(key_splits[b]) <= 1

\* three keys over two processes: slices of sizes 1 and 2
C1_Witness ==
    /\ pc = "processes"
    /\ Len(key_list) = 3
    /\ Len(key_splits) = 2
    /\ Len(key_splits[1]) # Len(key_splits[2])

(* ------------------------------------------------------------------ *)
(* C2                                                                  *)
(* ------------------------------------------------------------------ *)
\* C2: when the accumulation collection is empty after the join, the build
\* writes no cache file, and no cache file written by a build is empty.
C2_EmptyNeverPersisted ==
    /\ (PastJoin /\ shared_datapoints = <<>>) => manifest_writes = 0
    /\ (cache_file.exists /\ Len(cache_file.content) = 3) =>
          cache_file.content[1] # <<>>

(* ------------------------------------------------------------------ *)
(* C3                                                                  *)
(* ------------------------------------------------------------------ *)
\* the embedding at index j was computed from the wave that the
\* mel-spectrogram of the record at index j was computed from
Aligned(dps, embeddings) ==
    /\ Len(embeddings) = Len(dps)
    /\ \A j \in 1..Len(dps) :
          embeddings[j] = encode_batch(Tensor(dps[j][3].tensor.of))

\* C3: after the enrichment, and in the cache file a build has written,
\* there are as many speaker embeddings as records, and the embedding at
\* every index is the one of the normalized waveform of the record at that
\* index.
C3_Aligned ==
    /\ (pc \in {"save", "finish"} \/ (pc = "raised" /\ error = "AttributeError"))
          => Aligned(datapoints, speaker_embeddings)
    /\ (cache_file.exists /\ Len(cache_file.content) = 3)
          => Aligned(cache_file.content[1], cache_file.content[3])

\* a build has persisted records of two different files
C3_Witness ==
    /\ manifest_writes = 1
    /\ Len(cache_file.content[1]) >= 2
    /\ Len(cache_file.content[3]) >= 2
    /\ cache_file.content[3][1] # cache_file.content[3][2]

(* ------------------------------------------------------------------ *)
(* C4                                                                  *)
(* ------------------------------------------------------------------ *)
\* C4: a call that finds the cache file of a prior build and is not told to
\* rebuild spawns no process and completes without an error, datapoints and
\* speaker_embeddings being the persisted records and embeddings.
C4_CacheHit ==
    (CacheHitCall /\ Len(cache_file.content) = 3 /\ cache_file.content[1] # <<>>) =>
        /\ process_list = <<>>
        /\ error = ""
        /\ datapoints = cache_file.content[1]
        /\ speaker_embeddings = cache_file.content[3]

(* ------------------------------------------------------------------ *)
(* C5                                                                  *)
(* ------------------------------------------------------------------ *)
\* the file loads and its raw duration is below min_len or above max_len
RawOutside(p) ==
    /\ audio[p].readable
    /\ \/ audio[p].frames < min_len_in_seconds * audio[p].sr
       \/ audio[p].frames > max_len_in_seconds * audio[p].sr

\* the file normalizes to a 16 kHz wave shorter than min_len or longer than
\* max_len
NormOutside(p) ==
    /\ audio[p].readable
    /\ audio[p].norm_ok
    /\ LET n == audio[p].lead + audio[p].body + audio[p].trail
       IN  n < min_len_in_seconds * output_sr \/ n > max_len_in_seconds * output_sr

\* C5: a path whose raw duration or whose duration after normalization is
\* outside [min_len, max_len] is the source of no record: not in a worker's
\* chunk, not in the accumulation collection, not among the converted records
\* and waves, not in the cache file.
C5_OutsideNeverRecorded ==
    \A p \in Paths : (RawOutside(p) \/ NormOutside(p)) => p \notin AllSources

\* a worker has gone through a sample that only the second duration check
\* rejects, and has terminated normally
C5_Witness ==
    \E k \in 1..Len(process_list) :
        /\ process_list[k].state = "exited"
        /\ \E j \in 1..Len(process_list[k].path_list) :
              LET p == process_list[k].path_list[j]
              IN  /\ NormOutside(p)
                  /\ ~RawOutside(p)
                  /\ ~path_to_transcript_dict[p].blank

(* ------------------------------------------------------------------ *)
(* C6                                                                  *)
(* ------------------------------------------------------------------ *)
\* the transcript has a symbol the frontend does not know, and nothing else
\* lets the worker reject the sample
OnlyUnknown(p) ==
    /\ path_to_transcript_dict[p].raises
    /\ ~path_to_transcript_dict[p].blank
    /\ audio[p].readable /\ audio[p].norm_ok
    /\ ~RawOutside(p) /\ ~NormOutside(p)
    /\ path_to_transcript_dict[p].shape = <<2, FeatureWidth>>

\* the paths the worker k has gone through, once it has terminated normally
Handled(k) ==
    IF process_list[k].state = "exited" THEN Range(process_list[k].path_list)
    ELSE {}

\* the accumulation collection holds a record of p made in lenient mode
RetainedLenient(p) ==
    \E j \in 1..Len(shared_datapoints) :
        /\ shared_datapoints[j][5].src = p
        /\ shared_datapoints[j][1].src = p
        /\ shared_datapoints[j][1].handle_missing

WellFormed(shape) == Len(shape) = 2 /\ shape[1] >= 1 /\ shape[2] = FeatureWidth

\* what the strict conversion of the transcript of p yields is empty, or has
\* vectors of another width
MalformedText(p) ==
    /\ ~path_to_transcript_dict[p].raises
    /\ ~WellFormed(squeeze0(path_to_transcript_dict[p].shape))

\* the conversion of the transcript of p yields no vector at all
EmptyFeatures(p) ==
    LET shape == squeeze0(path_to_transcript_dict[p].shape)
    IN  ~path_to_transcript_dict[p].raises /\ (Len(shape) = 0 \/ shape[1] = 0)

\* C7: every record of the cache file has well-formed text_features, and a
\* sample whose conversion is empty or of another width is a single skipped
\* sample: the worker does not terminate on it.
C7_WellFormedOrSkipped ==
    /\ cache_file.exists =>
          \A j \in 1..Len(cache_file.content[1]) :
              WellFormed(cache_file.content[1][j][1].tensor.shape)
    /\ \A k \in 1..Len(process_list) :
          LET process == process_list[k]
          IN  (process.state = "crashed" /\ process.pos >= 1)
                  => ~MalformedText(process.path_list[process.pos])

(* ------------------------------------------------------------------ *)
(* C8                                                                  *)
(* ------------------------------------------------------------------ *)
\* the sample has one of the skippable errors: empty transcript, audio that
\* does not load or does not normalize, duration out of range, unknown
\* symbol, feature vectors of another width than 66
Skippable(p) ==
    \/ path_to_transcript_dict[p].blank
    \/ ~audio[p].readable
    \/ ~audio[p].norm_ok
    \/ RawOutside(p)
    \/ NormOutside(p)
    \/ path_to_transcript_dict[p].raises
    \/ (MalformedText(p) /\ ~EmptyFeatures(p))

\* C8: no worker terminates abnormally on a sample with a skippable error
\* (neither in its loop nor when it opens the first file of its slice), and
\* a worker that has terminated normally has appended the record of every
\* sample of its slice without such an error.
C8_SkipOnlyThatSample ==
    \A k \in 1..Len(process_list) :
        LET process == process_list[k]
        IN  /\ (process.state = "crashed" /\ process.pos >= 1)
                  => ~Skippable(process.path_list[process.pos])
            /\ (process.state = "crashed" /\ process.pos = 0
                                          /\ process.path_list # <<>>)
                  => ~Skippable(process.path_list[1])
            /\ process.state = "exited" =>
                  \A p \in Range(process.path_list) :
                      (~Skippable(p) /\ ~EmptyFeatures(p)) => p \in SharedSources

(* ------------------------------------------------------------------ *)
(* C9                                                                  *)
(* ------------------------------------------------------------------ *)
\* C9: whenever the constructing process is at or past the conversion of
\* the accumulation collection (lines 75 and on), or holds converted records
\* or waves, every one of the loading_processes workers has been started and
\* has terminated.
C9_JoinBarrier ==
    /\ PastJoin => AllTerminated
    /\ (Records # <<>> \/ norm_waves # <<>>) => AllTerminated

\* the records of two terminated workers have been converted
C9_Witness ==
    /\ pc = "filter"
    /\ Len(process_list) = 2
    /\ process_list[1].state = "exited" /\ process_list[1].chunk # <<>>
    /\ process_list[2].state = "exited" /\ process_list[2].chunk # <<>>
    /\ Len(datapoints) = 2

(* ------------------------------------------------------------------ *)
(* C10                                                                 *)
(* ------------------------------------------------------------------ *)
\* C10: once a call has written the cache file, every worker has been
\* joined, the filter has left no malformed record, there is an embedding for
\* every wave and every record, the file holds exactly these records, waves
\* and embeddings, it was written once, and only lines 132-133 remain; a call
\* that raised before line 112 has written nothing; and a cache file in the
\* current format always has an embedding for every record.
C10_WriteLast ==
    /\ manifest_writes > 0 =>
          /\ manifest_writes = 1
          /\ pc = "finish" \/ (pc = "raised" /\ error = "AttributeError")
          /\ AllTerminated
          /\ join_index = Len(process_list)
          /\ PopIndexes(datapoints) = {}
          /\ Len(speaker_embeddings) = Len(norm_waves)
          /\ Len(speaker_embeddings) = Len(datapoints)
          /\ cache_file = [exists |-> TRUE,
                           content |-> <<datapoints, norm_waves, speaker_embeddings>>]
    /\ (pc = "raised" /\ error # "AttributeError") => manifest_writes = 0
    /\ (cache_file.exists /\ Len(cache_file.content) = 3) =>
          /\ Len(cache_file.content[3]) = Len(cache_file.content[1])
          /\ Len(cache_file.content[3]) = Len(cache_file.content[2])

\* the cache file has just been written, with two records
C10_Witness ==
    /\ pc = "finish"
    /\ manifest_writes = 1
    /\ Len(datapoints) = 2
    /\ Len(speaker_embeddings) = 2
    /\ \E k \in 1..Len(process_list) : process_list[k].state = "crashed"

(* ------------------------------------------------------------------ *)
(* The accessor                                                        *)
(* ------------------------------------------------------------------ *)
\* every path through __init__ ends in an exception (lines 109, 116, 133)
ConstructorEnded == pc = "raised"

\* the records of the cache file as line 112 writes it
Persisted ==
    IF cache_file.exists /\ Len(cache_file.content) = 3
    THEN cache_file.content[1]
    ELSE <<>>

\* the 5-tuple of position index: the record's text decoded, its stored
\* lengths and spectrogram, and the embedding of the same position
TupleAt(index) ==
    <<Tensor(Tokens(Persisted[index + 1][1])), Persisted[index + 1][2],
      Persisted[index + 1][3], Persisted[index + 1][4],
      cache_file.content[3][index + 1]>>

\* C11: once a constructor call over a cache file that holds records has
\* ended (by a build or by a cache hit, the speaker model having loaded), the
\* call has not raised, length() is the number of persisted records, and
\* every get(index) made has returned the 5-tuple taken from the record and
\* the embedding stored at position index.
C11_Accessor ==
    (ConstructorEnded /\ Persisted # <<>> /\ error # "from_hparams") =>
        /\ error = ""
        /\ len_dataset = Len(Persisted)
        /\ \A r \in results :
              r[2].exc = "" /\ r[2].value = TupleAt(r[1])

\* C12: the token count of every tuple get(index) has returned is the
\* length of the token-id sequence of the same tuple.
C12_CountRecomputed ==
    \A r \in results :
        /\ r[2].exc = ""
        /\ r[2].value[2] = Tensor(<<Len(r[2].value[1].tensor)>>)

(* ------------------------------------------------------------------ *)
(* C13                                                                 *)
(* ------------------------------------------------------------------ *)
\* the call is a build that has written the cache file
BuildSaved == manifest_writes = 1 /\ key_splits # <<>>

C14_SameIndexSameTuple ==
    \A r1, r2 \in results :
        /\ r1[2].exc = ""
        /\ r1[1] = r2[1] => r1[2].value = r2[2].value

(* ------------------------------------------------------------------ *)
(* C15                                                                 *)
(* ------------------------------------------------------------------ *)
\* the extractor makes a record of the path
Accepted(p) == Iteration(p).kind = "append"

AllExited ==
    /\ Len(process_list) = loading_processes
    /\ \A k \in 1..Len(process_list) : process_list[k].state = "exited"

\* the records of the accepted paths of a slice, in slice order
BlockOf(path_list) ==
    LET accepted == SelectSeq(path_list, Accepted)
    IN  [j \in 1..Len(accepted) |-> Iteration(accepted[j]).datapoint]

\* C15: when every worker has terminated normally, the accumulation
\* collection after the join holds exactly one record for every path the
\* extractor accepts and none for any other path, and it is the
\* concatenation, in some order of the workers, of one block per worker:
\* the records of the accepted paths of the worker's slice in slice order.
C15_Accumulation ==
    (PastJoin /\ AllExited) =>
        /\ \A p \in Paths :
              Cardinality({j \in 1..Len(shared_datapoints) :
                              shared_datapoints[j][5].src = p})
                  = IF Accepted(p) THEN 1 ELSE 0
        /\ \E order \in Shuffles(Len(process_list)) :
              shared_datapoints =
                  Concat([k \in 1..Len(process_list) |->
                             BlockOf(key_splits[order[k]])])

\* two workers have appended blocks of two records and of one record, the
\* second worker first
C15_Witness ==
    /\ PastJoin
    /\ AllExited
    /\ Len(process_list) = 2
    /\ Len(shared_datapoints) = 3
    /\ shared_datapoints[1][5].src = key_splits[2][1]

(* ------------------------------------------------------------------ *)
(* C16                                                                 *)
(* ------------------------------------------------------------------ *)
\* the number of records of the accumulation collection made from path p
RecordsOf(p) ==
    Cardinality({j \in 1..Len(shared_datapoints) : shared_datapoints[j][5].src = p})

\* C16: the accumulation collection holds no record of any path of the
\* slice of a worker that has terminated abnormally, it holds one record
\* for every accepted path of the slice of a worker that has terminated
\* normally, and the error of the main process is never the exception of a
\* worker.
C16_AllOrNothing ==
    \A k \in 1..Len(process_list) :
        /\ process_list[k].state = "crashed" =>
              /\ \A p \in Range(process_list[k].path_list) : RecordsOf(p) = 0
              /\ error # process_list[k].exc
        /\ process_list[k].state = "exited" =>
              \A p \in Range(process_list[k].path_list) :
                  RecordsOf(p) = IF Accepted(p) THEN 1 ELSE 0

\* a worker has crashed with a record already extracted, another worker
\* has appended its record, and the main process is past the join
C16_Witness ==
    /\ pc = "convert"
    /\ Len(process_list) = 2
    /\ process_list[2].state = "crashed"
    /\ process_list[2].chunk # <<>>
    /\ process_list[1].state = "exited"
    /\ Len(shared_datapoints) = 1

(* ------------------------------------------------------------------ *)
(* C17                                                                 *)
(* ------------------------------------------------------------------ *)
\* C17: the normalized waveform of every record of a worker's chunk and of
\* the accumulation collection, as it is stored (leading and trailing zero
\* samples stripped), lasts at least min_len and at most max_len seconds at
\* 16 kHz.
C17_StoredInRange ==
    \A w \in {shared_datapoints[j][5] : j \in 1..Len(shared_datapoints)}
            \cup UNION {{process_list[k].chunk[j][5] :
                            j \in 1..Len(process_list[k].chunk)} :
                        k \in 1..Len(process_list)} :
        /\ w.lead + w.body + w.trail >= min_len_in_seconds * output_sr
        /\ w.lead + w.body + w.trail <= max_len_in_seconds * output_sr

C19_JoinTerminates ==
    /\ (pc = "processes") ~> (pc = "enrich")
    /\ [](\A k \in 1..Len(process_list) :
              process_list[k].state = "exited" =>
                  process_list[k].visited = process_list[k].path_list)
    /\ [](pc \in Range(MainOrder) =>
              \A k \in 1..Len(process_list) : Terminated(k))

\* the main process is at the enrichment after one worker has crashed and
\* the other has gone through its slice
C19_Witness ==
    /\ pc = "enrich"
    /\ Len(process_list) = 2
    /\ process_list[1].state = "crashed"
    /\ process_list[2].state = "exited"
    /\ process_list[2].visited # <<>>

(* ------------------------------------------------------------------ *)
(* C20                                                                 *)
(* ------------------------------------------------------------------ *)
\* C20: when there are more workers than paths, no worker whose slice is
\* empty raises an exception or terminates abnormally, and none has a
\* record to append.
C20_EmptySliceExits ==
    loading_processes > Len(key_list) =>
        \A k \in 1..Len(process_list) :
            process_list[k].path_list = <<>> =>
                /\ process_list[k].state # "crashed"
                /\ process_list[k].exc = ""
                /\ process_list[k].chunk = <<>>
====
